---- MODULE Spec2Model ----
(***************************************************************************)
(* Type comparison and instantiation engine of the tiny-ts checkers:       *)
(*   - subtype        of the subtyping variant      (src/unnamed/part_000) *)
(*   - subst, typeEq  of the polymorphic variant    (src/poly.ts)          *)
(*   - typeEq         of recfunc.ts                 (src/recfunc.ts)       *)
(*   - typeEq         of the equi-recursive variant (src/unnamed/part_001) *)
(* Every variant is a program of its own; a run of a variant is a sequence *)
(* of calls of its functions.  A call is made from pc = "idle", leaves its *)
(* arguments in `call` and its outcome in `result` at pc = "returned", and *)
(* Return brings the program back to "idle".  The only state that lives    *)
(* across calls is the fresh-name counter freshTyVarId of poly.ts.         *)
(***************************************************************************)
EXTENDS Integers, Sequences, FiniteSets, TLC

VARIABLES
    prog,          \* which program runs: "sub", "poly", "recfunc" or "rec"
    pc,            \* "idle", "running", "returned", or "diverged" for a call
                   \* that cannot return
    call,          \* the operation called and its arguments
    result,        \* the outcome of the call
    freshTyVarId,  \* poly.ts: let freshTyVarId
    todo           \* rec: the pending comparisons of typeEqSub, innermost first

vars == <<prog, pc, call, result, freshTyVarId, todo>>

(***************************************************************************)
(* Type model                                                              *)
(***************************************************************************)
Boolean == [tag |-> "Boolean"]
Number == [tag |-> "Number"]
Param(name, type) == [name |-> name, type |-> type]
Func(params, retType) == [tag |-> "Func", params |-> params, retType |-> retType]
PropertyType(name, type) == [name |-> name, type |-> type]
Object(props) == [tag |-> "Object", props |-> props]

\* outcomes of a call
NoCall == [op |-> "none"]
NoResult == [kind |-> "none"]
Ret(v) == [kind |-> "ret", val |-> v]
Throw(msg) == [kind |-> "throw", msg |-> msg]

\* Array.prototype.find on a list of properties: the index of the first
\* property called name, 0 for undefined
Find(props, name) ==
    LET hits == {i \in 1..Len(props) : props[i].name = name}
    IN  IF hits = {} THEN 0 ELSE CHOOSE i \in hits : \A j \in hits : i <= j

(***************************************************************************)
(* Subtyping variant: subtype                                              *)
(***************************************************************************)
RECURSIVE SubtypeCovariantParams(_, _)
SubtypeCovariantParams(ty1, ty2) ==
    CASE ty2.tag = "Boolean" -> ty1.tag = "Boolean"
      [] ty2.tag = "Number" -> ty1.tag = "Number"
      [] ty2.tag = "Func" ->
            /\ ty1.tag = "Func"
            /\ Len(ty1.params) = Len(ty2.params)
            /\ \A i \in 1..Len(ty1.params) :
                  SubtypeCovariantParams(ty1.params[i].type, ty2.params[i].type)
            /\ SubtypeCovariantParams(ty1.retType, ty2.retType)
      [] ty2.tag = "Object" ->
            /\ ty1.tag = "Object"
            /\ \A j \in 1..Len(ty2.props) :
                  LET k == Find(ty1.props, ty2.props[j].name)
                  IN  /\ k # 0
                      /\ SubtypeCovariantParams(ty1.props[k].type, ty2.props[j].type)

RECURSIVE SubtypeSameWidth(_, _)
SubtypeSameWidth(ty1, ty2) ==
    CASE ty2.tag = "Boolean" -> ty1.tag = "Boolean"
      [] ty2.tag = "Number" -> ty1.tag = "Number"
      [] ty2.tag = "Func" ->
            /\ ty1.tag = "Func"
            /\ Len(ty1.params) = Len(ty2.params)
            /\ \A i \in 1..Len(ty1.params) :
                  SubtypeSameWidth(ty2.params[i].type, ty1.params[i].type)
            /\ SubtypeSameWidth(ty1.retType, ty2.retType)
      [] ty2.tag = "Object" ->
            /\ ty1.tag = "Object"
            /\ Len(ty1.props) = Len(ty2.props)
            /\ \A j \in 1..Len(ty2.props) :
                  LET k == Find(ty1.props, ty2.props[j].name)
                  IN  /\ k # 0
                      /\ SubtypeSameWidth(ty1.props[k].type, ty2.props[j].type)

RECURSIVE SubtypeLostNegation(_, _)
SubtypeLostNegation(ty1, ty2) ==
    CASE ty2.tag = "Boolean" -> ty1.tag = "Boolean"
      [] ty2.tag = "Number" -> ty1.tag = "Number"
      [] ty2.tag = "Func" ->
            /\ ty1.tag = "Func"
            /\ Len(ty1.params) = Len(ty2.params)
            /\ \A i \in 1..Len(ty1.params) :
                  SubtypeLostNegation(ty2.params[i].type, ty1.params[i].type)
            /\ SubtypeLostNegation(ty1.retType, ty2.retType)
      [] ty2.tag = "Object" ->
            /\ ty1.tag = "Object"
            /\ \A j \in 1..Len(ty2.props) :
                  LET k == Find(ty1.props, ty2.props[j].name)
                  IN  /\ k # 0
                      /\ ~SubtypeLostNegation(ty1.props[k].type, ty2.props[j].type)

RECURSIVE Subtype(_, _)
Subtype(ty1, ty2) ==
    CASE ty2.tag = "Boolean" -> ty1.tag = "Boolean"
      [] ty2.tag = "Number" -> ty1.tag = "Number"
      [] ty2.tag = "Func" ->
            /\ ty1.tag = "Func"
            /\ Len(ty1.params) = Len(ty2.params)
            /\ \A i \in 1..Len(ty1.params) :
                  Subtype(ty2.params[i].type, ty1.params[i].type)
            /\ Subtype(ty1.retType, ty2.retType)
      [] ty2.tag = "Object" ->
            /\ ty1.tag = "Object"
            /\ \A j \in 1..Len(ty2.props) :
                  LET k == Find(ty1.props, ty2.props[j].name)
                  IN  /\ k # 0
                      /\ Subtype(ty1.props[k].type, ty2.props[j].type)

(***************************************************************************)
(* Polymorphic variant: subst, typeEq                                      *)
(***************************************************************************)
TypeAbs(typeParams, type) == [tag |-> "TypeAbs", typeParams |-> typeParams, type |-> type]
TypeVar(name) == [tag |-> "TypeVar", name |-> name]

\* `${tyVar}${freshTyVarId++}`: the name followed by the decimal digits of the
\* counter
FreshName(tyVar, id) == tyVar \o ToString(id)

\* subst and fresthTypeAbs read and advance the global counter: they take its
\* value as id and give the new value back next to their result
RECURSIVE Subst(_, _, _, _)
RECURSIVE SubstParams(_, _, _, _)
RECURSIVE FresthTypeAbs(_, _, _)

\* ty.params.map(...) of subst, left to right
SubstParams(params, tyVarName, repTy, id) ==
    IF params = <<>> THEN [params |-> <<>>, id |-> id]
    ELSE LET h == Subst(Head(params).type, tyVarName, repTy, id)
             t == SubstParams(Tail(params), tyVarName, repTy, h.id)
         IN  [params |-> <<Param(Head(params).name, h.type)>> \o t.params, id |-> t.id]

\* fresthTypeAbs that keeps the names of the binder
FresthTypeAbsKeepNames(typeParams, ty, id) ==
    [newTypeParams |-> typeParams, newType |-> ty, id |-> id + Len(typeParams)]

FresthTypeAbs(typeParams, ty, id) ==
    IF typeParams = <<>> THEN [newTypeParams |-> <<>>, newType |-> ty, id |-> id]
    ELSE LET tyVar == Head(typeParams)
             newTyVar == FreshName(tyVar, id)
             s == Subst(ty, tyVar, TypeVar(newTyVar), id + 1)
             rest == FresthTypeAbs(Tail(typeParams), s.type, s.id)
         IN  [newTypeParams |-> <<newTyVar>> \o rest.newTypeParams,
              newType |-> rest.newType, id |-> rest.id]

Includes(s, x) == \E i \in 1..Len(s) : s[i] = x

Subst(ty, tyVarName, repTy, id) ==
    CASE ty.tag \in {"Boolean", "Number"} -> [type |-> ty, id |-> id]
      [] ty.tag = "Func" ->
            LET ps == SubstParams(ty.params, tyVarName, repTy, id)
                r == Subst(ty.retType, tyVarName, repTy, ps.id)
            IN  [type |-> Func(ps.params, r.type), id |-> r.id]
      [] ty.tag = "TypeAbs" ->
            IF Includes(ty.typeParams, tyVarName) THEN [type |-> ty, id |-> id]
            ELSE LET f == FresthTypeAbs(ty.typeParams, ty.type, id)
                     b == Subst(f.newType, tyVarName, repTy, f.id)
                 IN  [type |-> TypeAbs(f.newTypeParams, b.type), id |-> b.id]
      [] ty.tag = "TypeVar" ->
            [type |-> IF ty.name = tyVarName THEN repTy ELSE ty, id |-> id]

\* outcomes of a comparison: "true", "false", or "throw" for the Error of
\* typeEqSub
Bool(b) == IF b THEN "true" ELSE "false"

\* newMap[k] = v
MapPut(map, k, v) == [x \in DOMAIN map \cup {k} |-> IF x = k THEN v ELSE map[x]]

\* the loop that binds typeParams1[i] to typeParams2[i], from index i on
RECURSIVE BindTypeParams(_, _, _, _)
BindTypeParams(map, typeParams1, typeParams2, i) ==
    IF i > Len(typeParams1) THEN map
    ELSE BindTypeParams(MapPut(map, typeParams1[i], typeParams2[i]),
                        typeParams1, typeParams2, i + 1)

RECURSIVE TypeEqSubPoly(_, _, _)
RECURSIVE TypeEqParamsPoly(_, _, _, _)

\* the loop over the parameters, from index i on: the first comparison that
\* is not true ends it
TypeEqParamsPoly(params1, params2, i, map) ==
    IF i > Len(params1) THEN "true"
    ELSE LET r == TypeEqSubPoly(params1[i].type, params2[i].type, map)
         IN  IF r # "true" THEN r ELSE TypeEqParamsPoly(params1, params2, i + 1, map)

TypeEqSubPoly(ty1, ty2, map) ==
    CASE ty2.tag = "Boolean" -> Bool(ty1.tag = "Boolean")
      [] ty2.tag = "Number" -> Bool(ty1.tag = "Number")
      [] ty2.tag = "Func" ->
            IF ty1.tag # "Func" THEN "false"
            ELSE IF Len(ty1.params) # Len(ty2.params) THEN "false"
            ELSE LET ps == TypeEqParamsPoly(ty1.params, ty2.params, 1, map)
                 IN  IF ps # "true" THEN ps
                     ELSE TypeEqSubPoly(ty1.retType, ty2.retType, map)
      [] ty2.tag = "TypeAbs" ->
            IF ty1.tag # "TypeAbs" THEN "false"
            ELSE IF Len(ty1.typeParams) # Len(ty2.typeParams) THEN "false"
            ELSE TypeEqSubPoly(ty1.type, ty2.type,
                               BindTypeParams(map, ty1.typeParams, ty2.typeParams, 1))
      [] ty2.tag = "TypeVar" ->
            IF ty1.tag # "TypeVar" THEN "false"
            ELSE IF ty1.name \notin DOMAIN map THEN "throw"
            ELSE Bool(map[ty1.name] = ty2.name)

TypeEqPoly(ty1, ty2, tyVars) ==
    TypeEqSubPoly(ty1, ty2, [x \in {tyVars[i] : i \in 1..Len(tyVars)} |-> x])

(***************************************************************************)
(* recfunc.ts: typeEq                                                      *)
(***************************************************************************)
RECURSIVE TypeEqRecFunc(_, _)
TypeEqRecFunc(ty1, ty2) ==
    CASE ty2.tag = "Boolean" -> ty1.tag = "Boolean"
      [] ty2.tag = "Number" -> ty1.tag = "Number"
      [] ty2.tag = "Func" ->
            /\ ty1.tag = "Func"
            /\ Len(ty1.params) = Len(ty2.params)
            /\ \A i \in 1..Len(ty1.params) :
                  TypeEqRecFunc(ty1.params[i].type, ty2.params[i].type)
            /\ TypeEqRecFunc(ty1.retType, ty2.retType)
      [] ty2.tag = "Object" ->
            /\ ty1.tag = "Object"
            /\ Len(ty1.props) = Len(ty2.props)
            /\ \A j \in 1..Len(ty2.props) :
                  LET k == Find(ty1.props, ty2.props[j].name)
                  IN  /\ k # 0
                      /\ TypeEqRecFunc(ty1.props[k].type, ty2.props[j].type)
      \* a value that is no Type has no tag the switch knows: undefined, falsy
      [] OTHER -> FALSE

(***************************************************************************)
(* Terms (tiny-ts-parser's Term), and the type environment, a plain        *)
(* JavaScript object: `name in tyEnv` and tyEnv[name] see the object's own *)
(* properties and the ones it inherits from Object.prototype.              *)
(***************************************************************************)
TmTrue == [tag |-> "true"]
TmFalse == [tag |-> "false"]
TmNumber == [tag |-> "number"]
TmIf(cond, thn, els) == [tag |-> "if", cond |-> cond, thn |-> thn, els |-> els]
TmAdd(left, right) == [tag |-> "add", left |-> left, right |-> right]
TmVar(name) == [tag |-> "var", name |-> name]
\* retType: the optional annotation; Undefined when the source gives none
Undefined == [tag |-> "undefined"]
TmFunc(params, retType, body) ==
    [tag |-> "func", params |-> params, retType |-> retType, body |-> body]
TmCall(func, args) == [tag |-> "call", func |-> func, args |-> args]
TmSeq(body, rest) == [tag |-> "seq", body |-> body, rest |-> rest]
TmConst(name, init, rest) == [tag |-> "const", name |-> name, init |-> init, rest |-> rest]
TmObjectNew(props) == [tag |-> "objectNew", props |-> props]
PropertyTerm(name, term) == [name |-> name, term |-> term]
TmObjectGet(obj, propName) == [tag |-> "objectGet", obj |-> obj, propName |-> propName]
TmRecFunc(funcName, params, retType, body, rest) ==
    [tag |-> "recFunc", funcName |-> funcName, params |-> params,
     retType |-> retType, body |-> body, rest |-> rest]

\* the properties every object literal inherits
ObjectPrototype == {"constructor", "toString", "valueOf", "hasOwnProperty"}
\* the inherited value: a function object, whose `tag` is undefined
Inherited(name) == [tag |-> "undefined", inherited |-> name]
EmptyEnv == [n \in {} |-> Boolean]
\* name in tyEnv
In(name, tyEnv) == name \in DOMAIN tyEnv \/ name \in ObjectPrototype
\* tyEnv[name], read after `in` said yes
Get(tyEnv, name) == IF name \in DOMAIN tyEnv THEN tyEnv[name] ELSE Inherited(name)
\* { ...tyEnv, [name]: type }, and newTyEnv[name] = type
EnvPut(tyEnv, name, type) ==
    [n \in DOMAIN tyEnv \cup {name} |-> IF n = name THEN type ELSE tyEnv[n]]
\* for (const { name, type } of params) newTyEnv[name] = type
RECURSIVE BindParams(_, _)
BindParams(tyEnv, params) ==
    IF params = <<>> THEN tyEnv
    ELSE BindParams(EnvPut(tyEnv, Head(params).name, Head(params).type), Tail(params))

\* the outcome of typecheck: the type returned or the diagnostic thrown, and
\* what the object passed as tyEnv holds when the call is over
Ok(type, tyEnv) == [kind |-> "ret", val |-> type, env |-> tyEnv]
Err(msg, tyEnv) == [kind |-> "throw", msg |-> msg, env |-> tyEnv]

CallerEnvAliased(tyEnv, newTyEnv) == newTyEnv
\* const newTyEnv = { ...tyEnv }: newTyEnv is a new object, so the object
\* the caller passed is, after the callee wrote to newTyEnv, what it was
CallerEnvAfter(tyEnv, newTyEnv) == tyEnv

RecFuncBodyEnvNoSelf(tyEnv, funcName, funcTy, params) == BindParams(tyEnv, params)
\* const newTyEnv = { ...tyEnv, [t.funcName]: funcTy };
\* for (const { name, type } of t.params) newTyEnv[name] = type;
RecFuncBodyEnv(tyEnv, funcName, funcTy, params) ==
    BindParams(EnvPut(tyEnv, funcName, funcTy), params)

ParameterTypeMismatch(i, paramTy, argTy) ==
    "parameter type mismatch: [" \o ToString(i) \o "]: expected "
        \o paramTy.tag \o ", got " \o argTy.tag

(***************************************************************************)
(* sub.ts: typecheck                                                       *)
(***************************************************************************)
RECURSIVE TypecheckSub(_, _)
RECURSIVE CallArgsSub(_, _, _, _)
RECURSIVE ObjectNewSub(_, _, _, _)

\* for (let i = 0; i < t.args.length; i++) { ... }: i counts from 1 here,
\* the diagnostic carries the source's index i - 1
CallArgsSub(args, params, i, tyEnv) ==
    IF i > Len(args) THEN Ok(Undefined, tyEnv)
    ELSE LET a == TypecheckSub(args[i], tyEnv)
         IN  IF a.kind = "throw" THEN a
             ELSE IF ~Subtype(a.val, params[i].type)
             THEN Err(ParameterTypeMismatch(i - 1, params[i].type, a.val), a.env)
             ELSE CallArgsSub(args, params, i + 1, a.env)

\* t.props.map(({ name, term }) => ({ name, type: typecheck(term, tyEnv) }))
ObjectNewSub(props, i, acc, tyEnv) ==
    IF i > Len(props) THEN Ok(Object(acc), tyEnv)
    ELSE LET p == TypecheckSub(props[i].term, tyEnv)
         IN  IF p.kind = "throw" THEN p
             ELSE ObjectNewSub(props, i + 1,
                               Append(acc, PropertyType(props[i].name, p.val)), p.env)

TypecheckSub(t, tyEnv) ==
    CASE t.tag \in {"true", "false"} -> Ok(Boolean, tyEnv)
      [] t.tag = "number" -> Ok(Number, tyEnv)
      [] t.tag = "add" ->
            LET l == TypecheckSub(t.left, tyEnv)
            IN  IF l.kind = "throw" THEN l
                ELSE IF l.val.tag # "Number" THEN Err("number expected", l.env)
                ELSE LET r == TypecheckSub(t.right, l.env)
                     IN  IF r.kind = "throw" THEN r
                         ELSE IF r.val.tag # "Number" THEN Err("number expected", r.env)
                         ELSE Ok(Number, r.env)
      [] t.tag = "var" ->
            IF ~In(t.name, tyEnv) THEN Err("unknown variable: " \o t.name, tyEnv)
            ELSE Ok(Get(tyEnv, t.name), tyEnv)
      [] t.tag = "func" ->
            LET newTyEnv == BindParams(tyEnv, t.params)
                b == TypecheckSub(t.body, newTyEnv)
                after == CallerEnvAfter(tyEnv, b.env)
            IN  IF b.kind = "throw" THEN Err(b.msg, after)
                ELSE Ok(Func(t.params, b.val), after)
      [] t.tag = "call" ->
            LET f == TypecheckSub(t.func, tyEnv)
            IN  IF f.kind = "throw" THEN f
                ELSE IF f.val.tag # "Func" THEN Err("function expected", f.env)
                ELSE IF Len(t.args) # Len(f.val.params)
                THEN Err("wrong number of arguments", f.env)
                ELSE LET a == CallArgsSub(t.args, f.val.params, 1, f.env)
                     IN  IF a.kind = "throw" THEN a
                         ELSE Ok(f.val.retType, a.env)
      [] t.tag = "seq" ->
            LET b == TypecheckSub(t.body, tyEnv)
            IN  IF b.kind = "throw" THEN b
                ELSE TypecheckSub(t.rest, b.env)
      [] t.tag = "const" ->
            LET i == TypecheckSub(t.init, tyEnv)
            IN  IF i.kind = "throw" THEN i
                ELSE LET newTyEnv == EnvPut(i.env, t.name, i.val)
                         r == TypecheckSub(t.rest, newTyEnv)
                         after == CallerEnvAfter(i.env, r.env)
                     IN  IF r.kind = "throw" THEN Err(r.msg, after)
                         ELSE Ok(r.val, after)
      [] t.tag = "objectNew" -> ObjectNewSub(t.props, 1, <<>>, tyEnv)
      [] t.tag = "objectGet" ->
            LET o == TypecheckSub(t.obj, tyEnv)
            IN  IF o.kind = "throw" THEN o
                ELSE IF o.val.tag # "Object" THEN Err("object expected", o.env)
                ELSE LET k == Find(o.val.props, t.propName)
                     IN  IF k = 0 THEN Err("unknown property: " \o t.propName, o.env)
                         ELSE Ok(o.val.props[k].type, o.env)

(***************************************************************************)
(* recfunc.ts: typecheck                                                   *)
(***************************************************************************)
RECURSIVE TypecheckRecFunc(_, _)
RECURSIVE CallArgsRecFunc(_, _, _, _)
RECURSIVE CallArgsRecFuncOneBased(_, _, _, _)
RECURSIVE ObjectNewRecFunc(_, _, _, _)

CallArgsRecFuncOneBased(args, params, i, tyEnv) ==
    IF i > Len(args) THEN Ok(Undefined, tyEnv)
    ELSE LET a == TypecheckRecFunc(args[i], tyEnv)
         IN  IF a.kind = "throw" THEN a
             ELSE IF ~TypeEqRecFunc(a.val, params[i].type)
             THEN Err(ParameterTypeMismatch(i, params[i].type, a.val), a.env)
             ELSE CallArgsRecFuncOneBased(args, params, i + 1, a.env)

\* for (let i = 0; i < t.args.length; i++) { ... }: i counts from 1 here,
\* the diagnostic carries the source's index i - 1
CallArgsRecFunc(args, params, i, tyEnv) ==
    IF i > Len(args) THEN Ok(Undefined, tyEnv)
    ELSE LET a == TypecheckRecFunc(args[i], tyEnv)
         IN  IF a.kind = "throw" THEN a
             ELSE IF ~TypeEqRecFunc(a.val, params[i].type)
             THEN Err(ParameterTypeMismatch(i - 1, params[i].type, a.val), a.env)
             ELSE CallArgsRecFunc(args, params, i + 1, a.env)

\* t.props.map(({ name, term }) => ({ name, type: typecheck(term, tyEnv) }))
ObjectNewRecFunc(props, i, acc, tyEnv) ==
    IF i > Len(props) THEN Ok(Object(acc), tyEnv)
    ELSE LET p == TypecheckRecFunc(props[i].term, tyEnv)
         IN  IF p.kind = "throw" THEN p
             ELSE ObjectNewRecFunc(props, i + 1,
                                   Append(acc, PropertyType(props[i].name, p.val)), p.env)

TypecheckRecFunc(t, tyEnv) ==
    CASE t.tag \in {"true", "false"} -> Ok(Boolean, tyEnv)
      [] t.tag = "if" ->
            LET c == TypecheckRecFunc(t.cond, tyEnv)
            IN  IF c.kind = "throw" THEN c
                ELSE IF c.val.tag # "Boolean" THEN Err("boolean expected", c.env)
                ELSE LET thn == TypecheckRecFunc(t.thn, c.env)
                     IN  IF thn.kind = "throw" THEN thn
                         ELSE LET els == TypecheckRecFunc(t.els, thn.env)
                              IN  IF els.kind = "throw" THEN els
                                  ELSE IF ~TypeEqRecFunc(thn.val, els.val)
                                  THEN Err("then and else have different types", els.env)
                                  ELSE Ok(thn.val, els.env)
      [] t.tag = "number" -> Ok(Number, tyEnv)
      [] t.tag = "add" ->
            LET l == TypecheckRecFunc(t.left, tyEnv)
            IN  IF l.kind = "throw" THEN l
                ELSE IF l.val.tag # "Number" THEN Err("number expected", l.env)
                ELSE LET r == TypecheckRecFunc(t.right, l.env)
                     IN  IF r.kind = "throw" THEN r
                         ELSE IF r.val.tag # "Number" THEN Err("number expected", r.env)
                         ELSE Ok(Number, r.env)
      [] t.tag = "var" ->
            IF ~In(t.name, tyEnv) THEN Err("unknown variable: " \o t.name, tyEnv)
            ELSE Ok(Get(tyEnv, t.name), tyEnv)
      [] t.tag = "func" ->
            LET newTyEnv == BindParams(tyEnv, t.params)
                b == TypecheckRecFunc(t.body, newTyEnv)
                after == CallerEnvAfter(tyEnv, b.env)
            IN  IF b.kind = "throw" THEN Err(b.msg, after)
                ELSE IF t.retType # Undefined /\ ~TypeEqRecFunc(t.retType, b.val)
                THEN Err("wrong return type", after)
                ELSE Ok(Func(t.params, b.val), after)
      [] t.tag = "call" ->
            LET f == TypecheckRecFunc(t.func, tyEnv)
            IN  IF f.kind = "throw" THEN f
                ELSE IF f.val.tag # "Func" THEN Err("function expected", f.env)
                ELSE IF Len(t.args) # Len(f.val.params)
                THEN Err("wrong number of arguments", f.env)
                ELSE LET a == CallArgsRecFunc(t.args, f.val.params, 1, f.env)
                     IN  IF a.kind = "throw" THEN a
                         ELSE Ok(f.val.retType, a.env)
      [] t.tag = "seq" ->
            LET b == TypecheckRecFunc(t.body, tyEnv)
            IN  IF b.kind = "throw" THEN b
                ELSE TypecheckRecFunc(t.rest, b.env)
      [] t.tag = "const" ->
            LET i == TypecheckRecFunc(t.init, tyEnv)
            IN  IF i.kind = "throw" THEN i
                ELSE LET newTyEnv == EnvPut(i.env, t.name, i.val)
                         r == TypecheckRecFunc(t.rest, newTyEnv)
                         after == CallerEnvAfter(i.env, r.env)
                     IN  IF r.kind = "throw" THEN Err(r.msg, after)
                         ELSE Ok(r.val, after)
      [] t.tag = "objectNew" -> ObjectNewRecFunc(t.props, 1, <<>>, tyEnv)
      [] t.tag = "objectGet" ->
            LET o == TypecheckRecFunc(t.obj, tyEnv)
            IN  IF o.kind = "throw" THEN o
                ELSE IF o.val.tag # "Object" THEN Err("object expected", o.env)
                ELSE LET k == Find(o.val.props, t.propName)
                     IN  IF k = 0 THEN Err("unknown property: " \o t.propName, o.env)
                         ELSE Ok(o.val.props[k].type, o.env)
      [] t.tag = "recFunc" ->
            LET funcTy == Func(t.params, t.retType)
                newTyEnv == RecFuncBodyEnv(tyEnv, t.funcName, funcTy, t.params)
                b == TypecheckRecFunc(t.body, newTyEnv)
            IN  IF b.kind = "throw" THEN Err(b.msg, CallerEnvAfter(tyEnv, b.env))
                ELSE IF ~TypeEqRecFunc(t.retType, b.val)
                THEN Err("wrong return type", CallerEnvAfter(tyEnv, b.env))
                ELSE LET newTyEnv2 == EnvPut(b.env, t.funcName, funcTy)
                         r == TypecheckRecFunc(t.rest, newTyEnv2)
                         after == CallerEnvAfter(tyEnv, CallerEnvAfter(b.env, r.env))
                     IN  IF r.kind = "throw" THEN Err(r.msg, after)
                         ELSE Ok(r.val, after)

(***************************************************************************)
(* Equi-recursive variant: typeEqNaive, expandType                         *)
(***************************************************************************)
Rec(name, type) == [tag |-> "Rec", name |-> name, type |-> type]

\* {} as a Record<string, string>
EmptyMap == [x \in {} |-> x]

RECURSIVE TypeEqNaive(_, _, _)
RECURSIVE TypeEqNaiveParams(_, _, _, _)
RECURSIVE TypeEqNaiveProps(_, _, _, _)

\* the loop over the parameters, from index i on
TypeEqNaiveParams(params1, params2, i, map) ==
    IF i > Len(params1) THEN "true"
    ELSE LET r == TypeEqNaive(params1[i].type, params2[i].type, map)
         IN  IF r # "true" THEN r ELSE TypeEqNaiveParams(params1, params2, i + 1, map)

\* the loop over the properties of ty2, from index j on
TypeEqNaiveProps(props1, props2, j, map) ==
    IF j > Len(props2) THEN "true"
    ELSE LET k == Find(props1, props2[j].name)
         IN  IF k = 0 THEN "false"
             ELSE LET r == TypeEqNaive(props1[k].type, props2[j].type, map)
                  IN  IF r # "true" THEN r
                      ELSE TypeEqNaiveProps(props1, props2, j + 1, map)

TypeEqNaive(ty1, ty2, map) ==
    CASE ty2.tag \in {"Boolean", "Number"} -> Bool(ty1.tag = ty2.tag)
      [] ty2.tag = "Func" ->
            IF ty1.tag # "Func" THEN "false"
            ELSE IF Len(ty1.params) # Len(ty2.params) THEN "false"
            ELSE LET ps == TypeEqNaiveParams(ty1.params, ty2.params, 1, map)
                 IN  IF ps # "true" THEN ps
                     ELSE TypeEqNaive(ty1.retType, ty2.retType, map)
      [] ty2.tag = "Object" ->
            IF ty1.tag # "Object" THEN "false"
            ELSE IF Len(ty1.props) # Len(ty2.props) THEN "false"
            ELSE TypeEqNaiveProps(ty1.props, ty2.props, 1, map)
      [] ty2.tag = "Rec" ->
            IF ty1.tag # "Rec" THEN "false"
            ELSE TypeEqNaive(ty1.type, ty2.type, MapPut(map, ty1.name, ty2.name))
      [] ty2.tag = "TypeVar" ->
            IF ty1.tag # "TypeVar" THEN "false"
            ELSE IF ty1.name \notin DOMAIN map THEN "throw"
            ELSE Bool(map[ty1.name] = ty2.name)

RECURSIVE ExpandType(_, _, _)
ExpandType(ty, tyVarName, repTy) ==
    CASE ty.tag \in {"Boolean", "Number"} -> ty
      [] ty.tag = "Func" ->
            Func([i \in 1..Len(ty.params) |->
                     Param(ty.params[i].name,
                           ExpandType(ty.params[i].type, tyVarName, repTy))],
                 ExpandType(ty.retType, tyVarName, repTy))
      [] ty.tag = "Object" ->
            Object([i \in 1..Len(ty.props) |->
                       PropertyType(ty.props[i].name,
                                    ExpandType(ty.props[i].type, tyVarName, repTy))])
      [] ty.tag = "Rec" ->
            IF ty.name = tyVarName THEN ty
            ELSE Rec(ty.name, ExpandType(ty.type, tyVarName, repTy))
      [] ty.tag = "TypeVar" -> IF ty.name = tyVarName THEN repTy ELSE ty

\* the loop over seen of typeEqSub, from index i on: "hit" when a pair of
\* seen equals (ty1, ty2) by typeEqNaive, "miss" when none does
RECURSIVE SeenCheck(_, _, _, _)
SeenCheck(seen, ty1, ty2, i) ==
    IF i > Len(seen) THEN "miss"
    ELSE LET a == TypeEqNaive(seen[i][1], ty1, EmptyMap)
         IN  IF a = "throw" THEN "throw"
             ELSE IF a = "false" THEN SeenCheck(seen, ty1, ty2, i + 1)
             ELSE LET b == TypeEqNaive(seen[i][2], ty2, EmptyMap)
                  IN  IF b = "throw" THEN "throw"
                      ELSE IF b = "true" THEN "hit"
                      ELSE SeenCheck(seen, ty1, ty2, i + 1)

(***************************************************************************)
(* poly.ts: typecheck.  Its outcome also tells what the array passed as    *)
(* tyVars holds when the call is over, and the value of freshTyVarId.      *)
(***************************************************************************)
TmTypeAbs(typeParams, body) == [tag |-> "typeAbs", typeParams |-> typeParams, body |-> body]
TmTypeApp(typeAbs, typeArgs) == [tag |-> "typeApp", typeAbs |-> typeAbs, typeArgs |-> typeArgs]

OkPoly(type, tyEnv, tyVars, id) ==
    [kind |-> "ret", val |-> type, env |-> tyEnv, tyVars |-> tyVars, id |-> id]
ErrPoly(msg, tyEnv, tyVars, id) ==
    [kind |-> "throw", msg |-> msg, env |-> tyEnv, tyVars |-> tyVars, id |-> id]

\* const tyVars2 = [...tyVars]: tyVars2 is a new array, so the array the
\* caller passed is, after the pushes to tyVars2, what it was
CallerTyVarsAfter(tyVars, tyVars2) == tyVars

RECURSIVE TypecheckPoly(_, _, _, _)
RECURSIVE CallArgsPoly(_, _, _, _, _, _)
RECURSIVE SubstTypeArgs(_, _, _, _, _)

\* for (let i = 0; i < t.args.length; i++) { ... }: i counts from 1 here,
\* the diagnostic carries the source's index i - 1
CallArgsPoly(args, params, i, tyEnv, tyVars, id) ==
    IF i > Len(args) THEN OkPoly(Undefined, tyEnv, tyVars, id)
    ELSE LET a == TypecheckPoly(args[i], tyEnv, tyVars, id)
             eq == TypeEqPoly(a.val, params[i].type, a.tyVars)
         IN  IF a.kind = "throw" THEN a
             ELSE IF eq = "throw"
             THEN ErrPoly("unknown type variable", a.env, a.tyVars, a.id)
             ELSE IF eq = "false"
             THEN ErrPoly(ParameterTypeMismatch(i - 1, params[i].type, a.val),
                          a.env, a.tyVars, a.id)
             ELSE CallArgsPoly(args, params, i + 1, a.env, a.tyVars, a.id)

\* for (let i = 0; i < bodyTy.typeParams.length; i++)
\*     newTy = subst(newTy, bodyTy.typeParams[i], t.typeArgs[i]);
SubstTypeArgs(newTy, typeParams, typeArgs, i, id) ==
    IF i > Len(typeParams) THEN [type |-> newTy, id |-> id]
    ELSE LET s == Subst(newTy, typeParams[i], typeArgs[i], id)
         IN  SubstTypeArgs(s.type, typeParams, typeArgs, i + 1, s.id)

TypecheckPoly(t, tyEnv, tyVars, id) ==
    CASE t.tag \in {"true", "false"} -> OkPoly(Boolean, tyEnv, tyVars, id)
      [] t.tag = "if" ->
            LET c == TypecheckPoly(t.cond, tyEnv, tyVars, id)
            IN  IF c.kind = "throw" THEN c
                ELSE IF c.val.tag # "Boolean"
                THEN ErrPoly("boolean expected", c.env, c.tyVars, c.id)
                ELSE LET thn == TypecheckPoly(t.thn, c.env, c.tyVars, c.id)
                     IN  IF thn.kind = "throw" THEN thn
                         ELSE LET els == TypecheckPoly(t.els, thn.env, thn.tyVars, thn.id)
                                  eq == TypeEqPoly(thn.val, els.val, els.tyVars)
                              IN  IF els.kind = "throw" THEN els
                                  ELSE IF eq = "throw"
                                  THEN ErrPoly("unknown type variable",
                                               els.env, els.tyVars, els.id)
                                  ELSE IF eq = "false"
                                  THEN ErrPoly("then and else have different types",
                                               els.env, els.tyVars, els.id)
                                  ELSE OkPoly(thn.val, els.env, els.tyVars, els.id)
      [] t.tag = "number" -> OkPoly(Number, tyEnv, tyVars, id)
      [] t.tag = "add" ->
            LET l == TypecheckPoly(t.left, tyEnv, tyVars, id)
            IN  IF l.kind = "throw" THEN l
                ELSE IF l.val.tag # "Number"
                THEN ErrPoly("number expected", l.env, l.tyVars, l.id)
                ELSE LET r == TypecheckPoly(t.right, l.env, l.tyVars, l.id)
                     IN  IF r.kind = "throw" THEN r
                         ELSE IF r.val.tag # "Number"
                         THEN ErrPoly("number expected", r.env, r.tyVars, r.id)
                         ELSE OkPoly(Number, r.env, r.tyVars, r.id)
      [] t.tag = "var" ->
            IF ~In(t.name, tyEnv)
            THEN ErrPoly("unknown variable: " \o t.name, tyEnv, tyVars, id)
            ELSE OkPoly(Get(tyEnv, t.name), tyEnv, tyVars, id)
      [] t.tag = "func" ->
            LET newTyEnv == BindParams(tyEnv, t.params)
                b == TypecheckPoly(t.body, newTyEnv, tyVars, id)
                after == CallerEnvAfter(tyEnv, b.env)
            IN  IF b.kind = "throw" THEN ErrPoly(b.msg, after, b.tyVars, b.id)
                ELSE OkPoly(Func(t.params, b.val), after, b.tyVars, b.id)
      [] t.tag = "call" ->
            LET f == TypecheckPoly(t.func, tyEnv, tyVars, id)
            IN  IF f.kind = "throw" THEN f
                ELSE IF f.val.tag # "Func"
                THEN ErrPoly("function expected", f.env, f.tyVars, f.id)
                ELSE IF Len(t.args) # Len(f.val.params)
                THEN ErrPoly("wrong number of arguments", f.env, f.tyVars, f.id)
                ELSE LET a == CallArgsPoly(t.args, f.val.params, 1, f.env, f.tyVars, f.id)
                     IN  IF a.kind = "throw" THEN a
                         ELSE OkPoly(f.val.retType, a.env, a.tyVars, a.id)
      [] t.tag = "seq" ->
            LET b == TypecheckPoly(t.body, tyEnv, tyVars, id)
            IN  IF b.kind = "throw" THEN b
                ELSE TypecheckPoly(t.rest, b.env, b.tyVars, b.id)
      [] t.tag = "const" ->
            LET i == TypecheckPoly(t.init, tyEnv, tyVars, id)
            IN  IF i.kind = "throw" THEN i
                ELSE LET newTyEnv == EnvPut(i.env, t.name, i.val)
                         r == TypecheckPoly(t.rest, newTyEnv, i.tyVars, i.id)
                         after == CallerEnvAfter(i.env, r.env)
                     IN  IF r.kind = "throw" THEN ErrPoly(r.msg, after, r.tyVars, r.id)
                         ELSE OkPoly(r.val, after, r.tyVars, r.id)
      [] t.tag = "typeAbs" ->
            LET tyVars2 == tyVars \o t.typeParams
                b == TypecheckPoly(t.body, tyEnv, tyVars2, id)
                after == CallerTyVarsAfter(tyVars, b.tyVars)
            IN  IF b.kind = "throw" THEN ErrPoly(b.msg, b.env, after, b.id)
                ELSE OkPoly(TypeAbs(t.typeParams, b.val), b.env, after, b.id)
      [] t.tag = "typeApp" ->
            LET b == TypecheckPoly(t.typeAbs, tyEnv, tyVars, id)
            IN  IF b.kind = "throw" THEN b
                ELSE IF b.val.tag # "TypeAbs"
                THEN ErrPoly("type abstraction expected", b.env, b.tyVars, b.id)
                ELSE IF Len(b.val.typeParams) # Len(t.typeArgs)
                THEN ErrPoly("wrong number of type arguments", b.env, b.tyVars, b.id)
                ELSE LET s == SubstTypeArgs(b.val.type, b.val.typeParams, t.typeArgs, 1, b.id)
                     IN  OkPoly(s.type, b.env, b.tyVars, s.id)

(***************************************************************************)
(* Inputs of the subtyping variant                                         *)
(***************************************************************************)
MaxParams == 1
MaxProps == 2

SubPrims == {Boolean, Number}
SubFieldNames == {"a", "b"}
SubParamNames == {"x", "y"}

\* sequences of at most n elements of S
SeqsUpTo(S, n) == UNION {[1..k -> S] : k \in 0..n}

UniqueNames(s) == \A i, j \in 1..Len(s) : s[i].name = s[j].name => i = j

\* object types over the field types S, field names unique
ObjectsOver(S) ==
    {Object(ps) : ps \in {s \in SeqsUpTo([name : SubFieldNames, type : S], MaxProps) :
                             UniqueNames(s)}}

\* function types with parameter types P and return types R
FuncsOver(P, R) ==
    {Func(ps, r) : ps \in SeqsUpTo([name : SubParamNames, type : P], MaxParams), r \in R}

SubObjects1 == ObjectsOver(SubPrims)
SubFuncs1 == FuncsOver(SubPrims, SubPrims)

\* the types of the examples of sub.ts and of the specification
ObjFooBar == Object(<<PropertyType("foo", Number), PropertyType("bar", Boolean)>>)
ObjFoo == Object(<<PropertyType("foo", Number)>>)
ObjAB == Object(<<PropertyType("a", Number), PropertyType("b", Boolean)>>)
ObjA == Object(<<PropertyType("a", Number)>>)
G1 == Func(<<Param("x", ObjAB)>>, Number)
G2 == Func(<<Param("x", ObjA)>>, Number)

SubTypes ==
    SubPrims \cup SubObjects1 \cup SubFuncs1
      \cup {Func(<<Param(n, t)>>, r) : n \in SubParamNames, t \in SubObjects1, r \in SubPrims}
      \cup {Func(<<Param("f", t)>>, Number) : t \in SubFuncs1}
      \cup {Func(<<>>, t) : t \in SubObjects1}
      \cup {Object(<<PropertyType("a", t)>>) : t \in SubObjects1 \cup SubFuncs1}
      \cup {ObjFooBar, ObjFoo}

(***************************************************************************)
(* Inputs of the polymorphic variant                                       *)
(***************************************************************************)
MaxFreshId == 3
MaxTypeParams == 2

PolyNames == {"T", "U", "U1"}
PolyEqNames == {"T", "U"}

Distinct(s) == \A i, j \in 1..Len(s) : s[i] = s[j] => i = j

\* lists of one to MaxTypeParams distinct type parameters
Binders(N) == {tp \in SeqsUpTo(N, MaxTypeParams) : tp # <<>> /\ Distinct(tp)}

TypeVars(N) == {TypeVar(n) : n \in N}
PolyAtoms(N) == {Boolean, Number} \cup TypeVars(N)
FuncsOfVars(N) == {Func(<<Param("x", a)>>, b) : a, b \in TypeVars(N)}

\* the types subst is applied to
PolySubstTypes ==
    PolyAtoms(PolyNames)
      \cup {Func(<<Param("x", a)>>, b) : a, b \in PolyAtoms(PolyNames)}
      \cup {TypeAbs(<<n>>, t) : n \in PolyNames,
               t \in PolyAtoms(PolyNames) \cup FuncsOfVars(PolyNames)}
      \cup {TypeAbs(tp, t) : tp \in Binders(PolyEqNames), t \in FuncsOfVars(PolyEqNames)}
      \cup {TypeAbs(<<n>>, TypeAbs(<<m>>, t)) : n, m \in PolyNames,
               t \in TypeVars(PolyNames) \cup FuncsOfVars(PolyEqNames)}

\* the replacement types
PolyRepTypes ==
    TypeVars(PolyNames)
      \cup {Number, TypeAbs(<<"U">>, TypeVar("U")),
            Func(<<Param("x", TypeVar("U"))>>, TypeVar("T"))}

\* the types typeEq compares
PolyEqTypes ==
    PolyAtoms(PolyEqNames) \cup FuncsOfVars(PolyEqNames)
      \cup {TypeAbs(tp, t) : tp \in Binders(PolyEqNames),
               t \in TypeVars(PolyEqNames) \cup FuncsOfVars(PolyEqNames)}
      \cup {TypeAbs(<<n>>, TypeAbs(<<m>>, t)) : n, m \in PolyEqNames,
               t \in TypeVars(PolyEqNames)}

\* the lists of bound type variables typeEq is called with
PolyTyVars == {<<>>, <<"T">>, <<"T", "U">>}

(***************************************************************************)
(* Inputs of the equi-recursive variant                                    *)
(***************************************************************************)
RecNames == {"X", "Y"}

\* the type variables of ty that no enclosing Rec of ty binds
RECURSIVE FreeTypeVars(_)
FreeTypeVars(ty) ==
    CASE ty.tag \in {"Boolean", "Number"} -> {}
      [] ty.tag = "Func" ->
            UNION {FreeTypeVars(ty.params[i].type) : i \in 1..Len(ty.params)}
              \cup FreeTypeVars(ty.retType)
      [] ty.tag = "Object" ->
            UNION {FreeTypeVars(ty.props[i].type) : i \in 1..Len(ty.props)}
      [] ty.tag = "Rec" -> FreeTypeVars(ty.type) \ {ty.name}
      [] ty.tag = "TypeVar" -> {ty.name}

\* type NumStream = { num: number; rest: () => NumStream } of main
NumStream(t) ==
    Object(<<PropertyType("num", Number), PropertyType("rest", Func(<<>>, t))>>)

RecLeaves == {Boolean, Number} \cup TypeVars(RecNames)

SmallShapes(S) ==
    {Func(<<>>, t) : t \in S} \cup {Object(<<PropertyType("a", t)>>) : t \in S}

Shapes(S) ==
    SmallShapes(S) \cup {Func(<<Param("x", t)>>, Number) : t \in S}
      \cup {NumStream(t) : t \in S}

RecCandidates ==
    RecLeaves \cup Shapes(RecLeaves)
      \cup {Rec(n, b) : n \in RecNames, b \in RecLeaves \cup Shapes(RecLeaves)}
      \cup {Rec(n, Rec(m, b)) : n, m \in RecNames,
               b \in RecLeaves \cup SmallShapes(RecLeaves)}
      \cup {Rec(n, b) : n \in RecNames,
               b \in SmallShapes({Rec(m, c) : m \in RecNames,
                                     c \in SmallShapes(TypeVars(RecNames))})}

\* the closed types
RecTypes == {t \in RecCandidates : FreeTypeVars(t) = {}}

\* Rec(name, body) unfolded once
Unfold(ty) == ExpandType(ty.type, ty.name, ty)

\* the pairs typeEq is called with: all pairs of closed types, and every
\* recursive type with its unfolding
RecPairs ==
    (RecTypes \X RecTypes)
      \cup {<<t, Unfold(t)>> : t \in {r \in RecTypes : r.tag = "Rec"}}
      \cup {<<Unfold(t), t>> : t \in {r \in RecTypes : r.tag = "Rec"}}

(***************************************************************************)
(* Inputs of typecheck in poly.ts                                          *)
(***************************************************************************)
\* <U>(y: T) => U, a binder under which a substitution for T has to go
InnerAbs == TypeAbs(<<"U">>, Func(<<Param("y", TypeVar("T"))>>, TypeVar("U")))
PolyParamTypes == {Number, TypeVar("T"), TypeVar("Z"), InnerAbs}
PolyFuncs ==
    {TmFunc(<<Param("x", ty)>>, Undefined, b) : ty \in PolyParamTypes, b \in {TmVar("x"), TmTrue}}
PolyTypeAbs ==
    {TmTypeAbs(tps, f) : tps \in {<<"T">>, <<"T", "U">>}, f \in PolyFuncs}
PolyTypeArgs == {Number, Boolean, TypeVar("U"), TypeVar("U1"), TypeVar("Z")}
PolyTypeApps ==
    {TmTypeApp(ta, tas) :
        ta \in PolyTypeAbs \cup {TmVar("f"), TmNumber},
        tas \in SeqsUpTo(PolyTypeArgs, MaxTypeParams)}
PolyOthers ==
    {TmCall(f, <<a>>) : f \in PolyFuncs \cup {TmVar("f")}, a \in {TmNumber, TmVar("x"), TmVar("f")}}
    \cup {TmSeq(a, b) : a \in PolyTypeAbs, b \in {TmVar("x"), TmTrue}}
    \cup {TmConst("f", i, TmTypeApp(TmVar("f"), <<ta>>)) :
              i \in PolyTypeAbs, ta \in PolyTypeArgs}
    \cup {TmIf(TmTrue, a, b) : a, b \in PolyFuncs}
    \cup {TmAdd(a, b) : a, b \in {TmNumber, TmVar("x")}}
PolyTerms == {TmTrue, TmNumber, TmVar("x"), TmVar("f")} \cup PolyFuncs \cup PolyTypeAbs
                \cup PolyTypeApps \cup PolyOthers
PolyEnvs ==
    {EmptyEnv,
     EnvPut(EmptyEnv, "x", Number),
     EnvPut(EmptyEnv, "f", TypeAbs(<<"T">>, Func(<<Param("x", InnerAbs)>>, TypeVar("T"))))}

(***************************************************************************)
(* Inputs of typecheck in sub.ts: sub.ts's Func term has no retType        *)
(***************************************************************************)
MaxArgs == 2
TmObjFoo == TmObjectNew(<<PropertyTerm("foo", TmNumber)>>)
TmObjFooBar == TmObjectNew(<<PropertyTerm("foo", TmNumber), PropertyTerm("bar", TmTrue)>>)
SubCallees ==
    {TmVar("f"), TmNumber,
     TmFunc(<<Param("x", ObjFoo)>>, Undefined, TmObjectGet(TmVar("x"), "foo")),
     TmFunc(<<Param("x", ObjFooBar)>>, Undefined, TmVar("x")),
     TmFunc(<<Param("x", ObjFoo), Param("y", Boolean)>>, Undefined, TmVar("y"))}
SubArgs == {TmObjFoo, TmObjFooBar, TmTrue, TmVar("y")}
SubCalls == {TmCall(c, as) : c \in SubCallees, as \in SeqsUpTo(SubArgs, MaxArgs)}
SubOthers ==
    {TmAdd(a, b) : a, b \in {TmNumber, TmTrue, TmVar("x")}}
    \cup {TmSeq(a, b) : a \in {TmTrue, TmVar("y"), TmObjFoo}, b \in {TmNumber, TmVar("x")}}
    \cup {TmConst("x", i, r) :
              i \in {TmObjFooBar, TmNumber, TmVar("y")},
              r \in {TmVar("x"), TmObjectGet(TmVar("x"), "bar"),
                     TmCall(TmVar("f"), <<TmVar("x")>>)}}
SubTerms == {TmTrue, TmNumber, TmVar("x"), TmVar("y"), TmVar("f")}
               \cup SubCallees \cup SubCalls \cup SubOthers
SubEnvs ==
    {EmptyEnv,
     EnvPut(EmptyEnv, "y", ObjFooBar),
     EnvPut(EnvPut(EmptyEnv, "x", Number), "f", Func(<<Param("x", ObjFoo)>>, Number))}

(***************************************************************************)
(* Inputs of typecheck in recfunc.ts                                       *)
(***************************************************************************)
RFVarNames == {"x", "y", "f", "toString"}
RFAtoms == {TmTrue, TmNumber} \cup {TmVar(n) : n \in RFVarNames}
RFParamLists ==
    {<<>>, <<Param("x", Number)>>, <<Param("x", Boolean)>>,
     <<Param("x", Number), Param("y", Boolean)>>,
     <<Param("x", Number), Param("x", Boolean)>>}
RFFuncs ==
    {TmFunc(ps, rt, b) : ps \in RFParamLists, rt \in {Undefined, Number}, b \in RFAtoms}
\* (x: boolean) => x is the callee of basic.ts's example ((x: boolean) => x)(42)
RFCallees ==
    {TmVar("f"), TmNumber, TmVar("toString"),
     TmFunc(<<Param("x", Boolean)>>, Undefined, TmVar("x")),
     TmFunc(<<Param("x", Number), Param("y", Boolean)>>, Undefined, TmVar("x"))}
RFArgs == {TmTrue, TmNumber, TmVar("y")}
RFCalls == {TmCall(c, as) : c \in RFCallees, as \in SeqsUpTo(RFArgs, MaxArgs)}
RFSeqs ==
    {TmSeq(a, b) :
        a \in {TmTrue, TmVar("y"),
               TmFunc(<<Param("x", Number)>>, Undefined, TmVar("x")),
               TmConst("x", TmNumber, TmVar("x")),
               TmRecFunc("f", <<Param("x", Number)>>, Number, TmVar("x"), TmVar("f"))},
        b \in RFAtoms}
RFConsts ==
    {TmConst(n, i, r) :
        n \in {"x", "y"},
        i \in {TmNumber, TmTrue, TmVar("x"), TmConst("y", TmNumber, TmVar("y"))},
        r \in RFAtoms \cup {TmAdd(TmVar("x"), TmVar("y"))}}
RFRecFuncs ==
    {TmRecFunc("f", ps, rt, b, r) :
        ps \in {<<Param("x", Number)>>, <<Param("x", Boolean)>>, <<Param("f", Number)>>},
        rt \in {Number, Boolean},
        b \in {TmNumber, TmTrue, TmVar("x"), TmVar("f"), TmVar("y"),
               TmCall(TmVar("f"), <<TmVar("x")>>)},
        r \in {TmNumber, TmVar("f"), TmVar("x"), TmVar("y"),
               TmCall(TmVar("f"), <<TmNumber>>), TmCall(TmVar("f"), <<TmTrue>>)}}
RFOthers ==
    {TmIf(c, a, b) : c \in {TmTrue, TmNumber}, a, b \in {TmTrue, TmNumber, TmVar("toString")}}
    \cup {TmAdd(a, b) : a, b \in {TmNumber, TmTrue, TmVar("x")}}
    \cup {TmObjectNew(<<PropertyTerm("a", a), PropertyTerm("b", b)>>) :
              a, b \in {TmNumber, TmVar("y")}}
    \cup {TmObjectGet(o, n) :
              o \in {TmObjectNew(<<PropertyTerm("a", TmNumber)>>), TmVar("x")},
              n \in {"a", "b"}}
RFTerms == RFAtoms \cup RFFuncs \cup RFCalls \cup RFSeqs \cup RFConsts
              \cup RFRecFuncs \cup RFOthers
RFEnvs ==
    {EmptyEnv,
     EnvPut(EmptyEnv, "x", Boolean),
     EnvPut(EmptyEnv, "y", Number),
     EnvPut(EnvPut(EmptyEnv, "x", Number), "f", Func(<<Param("x", Number)>>, Boolean))}

(***************************************************************************)
(* The programs                                                            *)
(***************************************************************************)
\* let freshTyVarId = 1 (the counter exists in poly.ts only)
InitialFreshTyVarId == 1

InitSub ==
    /\ prog = "sub"
    /\ pc = "idle"
    /\ call = NoCall
    /\ result = NoResult
    /\ freshTyVarId = InitialFreshTyVarId
    /\ todo = <<>>

\* subtype(ty1, ty2)
CallSubtype ==
    /\ prog = "sub"
    /\ pc = "idle"
    /\ \E ty1, ty2 \in SubTypes :
          /\ call' = [op |-> "subtype", ty1 |-> ty1, ty2 |-> ty2]
          /\ result' = Ret(Subtype(ty1, ty2))
    /\ pc' = "returned"
    /\ UNCHANGED <<prog, freshTyVarId, todo>>

\* typecheck(t, tyEnv)
CallTypecheckSub ==
    /\ prog = "sub"
    /\ pc = "idle"
    /\ \E t \in SubTerms, tyEnv \in SubEnvs :
          /\ call' = [op |-> "typecheck", t |-> t, tyEnv |-> tyEnv]
          /\ result' = TypecheckSub(t, tyEnv)
    /\ pc' = "returned"
    /\ UNCHANGED <<prog, freshTyVarId, todo>>

\* the caller takes the outcome; the next call can be made
Return ==
    /\ pc = "returned"
    /\ pc' = "idle"
    /\ call' = NoCall
    /\ result' = NoResult
    /\ UNCHANGED <<prog, freshTyVarId, todo>>

NextSub == CallSubtype \/ CallTypecheckSub \/ Return

SpecSub == InitSub /\ [][NextSub]_vars

(***************************************************************************)
(* poly.ts                                                                 *)
(***************************************************************************)
InitPoly ==
    /\ prog = "poly"
    /\ pc = "idle"
    /\ call = NoCall
    /\ result = NoResult
    /\ freshTyVarId = InitialFreshTyVarId
    /\ todo = <<>>

\* subst(ty, tyVarName, repTy)
CallSubst ==
    /\ prog = "poly"
    /\ pc = "idle"
    /\ freshTyVarId <= MaxFreshId
    /\ \E ty \in PolySubstTypes, tyVarName \in PolyNames, repTy \in PolyRepTypes :
          LET s == Subst(ty, tyVarName, repTy, freshTyVarId)
          IN  /\ call' = [op |-> "subst", ty |-> ty, tyVarName |-> tyVarName,
                          repTy |-> repTy, id |-> freshTyVarId]
              /\ result' = Ret(s.type)
              /\ freshTyVarId' = s.id
    /\ pc' = "returned"
    /\ UNCHANGED <<prog, todo>>

\* typeEq(ty1, ty2, tyVars)
CallTypeEqPoly ==
    /\ prog = "poly"
    /\ pc = "idle"
    /\ \E ty1, ty2 \in PolyEqTypes, tyVars \in PolyTyVars :
          LET r == TypeEqPoly(ty1, ty2, tyVars)
          IN  /\ call' = [op |-> "typeEq", ty1 |-> ty1, ty2 |-> ty2, tyVars |-> tyVars]
              /\ result' = IF r = "throw" THEN Throw("unknown type variable")
                           ELSE Ret(r = "true")
    /\ pc' = "returned"
    /\ UNCHANGED <<prog, freshTyVarId, todo>>

\* typecheck(t, tyEnv, tyVars)
CallTypecheckPoly ==
    /\ prog = "poly"
    /\ pc = "idle"
    /\ freshTyVarId <= MaxFreshId
    /\ \E t \in PolyTerms, tyEnv \in PolyEnvs, tyVars \in PolyTyVars :
          LET r == TypecheckPoly(t, tyEnv, tyVars, freshTyVarId)
          IN  /\ call' = [op |-> "typecheck", t |-> t, tyEnv |-> tyEnv,
                          tyVars |-> tyVars, id |-> freshTyVarId]
              /\ result' = r
              /\ freshTyVarId' = r.id
    /\ pc' = "returned"
    /\ UNCHANGED <<prog, todo>>

NextPoly == CallTypeEqPoly \/ CallSubst \/ CallTypecheckPoly \/ Return

SpecPoly == InitPoly /\ [][NextPoly]_vars

(***************************************************************************)
(* recfunc.ts                                                              *)
(***************************************************************************)
InitRecFunc ==
    /\ prog = "recfunc"
    /\ pc = "idle"
    /\ call = NoCall
    /\ result = NoResult
    /\ freshTyVarId = InitialFreshTyVarId
    /\ todo = <<>>

\* typeEq(ty1, ty2)
CallTypeEqRecFunc ==
    /\ prog = "recfunc"
    /\ pc = "idle"
    /\ \E ty1, ty2 \in SubTypes :
          /\ call' = [op |-> "typeEq", ty1 |-> ty1, ty2 |-> ty2]
          /\ result' = Ret(TypeEqRecFunc(ty1, ty2))
    /\ pc' = "returned"
    /\ UNCHANGED <<prog, freshTyVarId, todo>>

\* typecheck(t, tyEnv)
CallTypecheckRecFunc ==
    /\ prog = "recfunc"
    /\ pc = "idle"
    /\ \E t \in RFTerms, tyEnv \in RFEnvs :
          /\ call' = [op |-> "typecheck", t |-> t, tyEnv |-> tyEnv]
          /\ result' = TypecheckRecFunc(t, tyEnv)
    /\ pc' = "returned"
    /\ UNCHANGED <<prog, freshTyVarId, todo>>

NextRecFunc == CallTypeEqRecFunc \/ CallTypecheckRecFunc \/ Return

SpecRecFunc == InitRecFunc /\ [][NextRecFunc]_vars

(***************************************************************************)
(* rec.ts: typeEq runs typeEqSub step by step.  Every call of typeEqSub    *)
(* returns the conjunction of the calls it makes and a false or an         *)
(* exception ends the whole comparison, so the calls still to be made are  *)
(* kept in todo, in the order the code makes them; typeEq returns true     *)
(* when none is left.                                                      *)
(***************************************************************************)
\* a call typeEqSub(ty1, ty2, seen)
EqGoal(ty1, ty2, seen) == [k |-> "typeEqSub", ty1 |-> ty1, ty2 |-> ty2, seen |-> seen]

\* a call simplifyType(ty) made by typeEqSub for its argument number side;
\* other is the other argument, seen the list extended with the pair, and
\* path the arguments of the calls of simplifyType that wait for this one
SimplifyGoal(side, ty, other, seen, path) ==
    [k |-> "simplifyType", side |-> side, ty |-> ty, other |-> other,
     seen |-> seen, path |-> path]

\* one round of the loop over ty2.props of typeEqSub
PropGoal(ty1, prop2, seen) == [k |-> "prop", ty1 |-> ty1, prop2 |-> prop2, seen |-> seen]

InitRec ==
    /\ prog = "rec"
    /\ pc = "idle"
    /\ call = NoCall
    /\ result = NoResult
    /\ freshTyVarId = InitialFreshTyVarId
    /\ todo = <<>>

\* typeEq(ty1, ty2) is called
CallTypeEqRec ==
    /\ prog = "rec"
    /\ pc = "idle"
    /\ \E p \in RecPairs :
          /\ call' = [op |-> "typeEq", ty1 |-> p[1], ty2 |-> p[2]]
          /\ todo' = <<EqGoal(p[1], p[2], <<>>)>>
    /\ pc' = "running"
    /\ UNCHANGED <<prog, result, freshTyVarId>>

\* the comparison ends with outcome r
Finish(r) ==
    /\ pc' = "returned"
    /\ result' = r
    /\ todo' = <<>>
    /\ UNCHANGED <<prog, call, freshTyVarId>>

\* the comparison goes on with the calls gs
Continue(gs) ==
    /\ todo' = gs
    /\ UNCHANGED <<prog, pc, call, result, freshTyVarId>>

\* the body of typeEqSub up to the calls it makes
StepTypeEqSub ==
    /\ pc = "running"
    /\ todo # <<>>
    /\ Head(todo).k = "typeEqSub"
    /\ LET g == Head(todo)
           rest == Tail(todo)
           found == SeenCheck(g.seen, g.ty1, g.ty2, 1)
           seen2 == Append(g.seen, <<g.ty1, g.ty2>>)
       IN  IF found = "throw" THEN Finish(Throw("unknown type variable"))
           ELSE IF found = "hit" THEN Continue(rest)
           ELSE IF g.ty1.tag = "Rec"
                THEN Continue(<<SimplifyGoal(1, g.ty1, g.ty2, seen2, <<>>)>> \o rest)
           ELSE IF g.ty2.tag = "Rec"
                THEN Continue(<<SimplifyGoal(2, g.ty2, g.ty1, seen2, <<>>)>> \o rest)
           ELSE IF g.ty2.tag \in {"Boolean", "Number"}
                THEN IF g.ty1.tag = g.ty2.tag THEN Continue(rest)
                     ELSE Finish(Ret(FALSE))
           ELSE IF g.ty2.tag = "Func"
                THEN IF g.ty1.tag # "Func" \/ Len(g.ty1.params) # Len(g.ty2.params)
                     THEN Finish(Ret(FALSE))
                     ELSE Continue([i \in 1..Len(g.ty1.params) |->
                                       EqGoal(g.ty1.params[i].type,
                                              g.ty2.params[i].type, g.seen)]
                                   \o <<EqGoal(g.ty1.retType, g.ty2.retType, g.seen)>>
                                   \o rest)
           ELSE IF g.ty2.tag = "Object"
                THEN IF g.ty1.tag # "Object" \/ Len(g.ty1.props) # Len(g.ty2.props)
                     THEN Finish(Ret(FALSE))
                     ELSE Continue([j \in 1..Len(g.ty2.props) |->
                                       PropGoal(g.ty1, g.ty2.props[j], g.seen)]
                                   \o rest)
           ELSE Finish(Throw("unreachable"))

\* one round of the loop over ty2.props: find, then the call of typeEqSub
StepProp ==
    /\ pc = "running"
    /\ todo # <<>>
    /\ Head(todo).k = "prop"
    /\ LET g == Head(todo)
           k == Find(g.ty1.props, g.prop2.name)
       IN  IF k = 0 THEN Finish(Ret(FALSE))
           ELSE Continue(<<EqGoal(g.ty1.props[k].type, g.prop2.type, g.seen)>>
                         \o Tail(todo))

\* simplifyType, case "Rec": it calls itself with the unfolded type
StepUnfold ==
    /\ pc = "running"
    /\ todo # <<>>
    /\ Head(todo).k = "simplifyType"
    /\ Head(todo).ty.tag = "Rec"
    /\ ~Includes(Head(todo).path, Head(todo).ty)
    /\ LET g == Head(todo)
       IN  Continue(<<SimplifyGoal(g.side, ExpandType(g.ty.type, g.ty.name, g.ty),
                                   g.other, g.seen, Append(g.path, g.ty))>>
                    \o Tail(todo))

\* simplifyType is called with the argument of one of its own pending calls:
\* it is a function of its argument, so the recursion never returns
Diverge ==
    /\ pc = "running"
    /\ todo # <<>>
    /\ Head(todo).k = "simplifyType"
    /\ Head(todo).ty.tag = "Rec"
    /\ Includes(Head(todo).path, Head(todo).ty)
    /\ pc' = "diverged"
    /\ UNCHANGED <<prog, call, result, freshTyVarId, todo>>

\* simplifyType, default case: typeEqSub calls itself with the simplified type
StepSimplified ==
    /\ pc = "running"
    /\ todo # <<>>
    /\ Head(todo).k = "simplifyType"
    /\ Head(todo).ty.tag # "Rec"
    /\ LET g == Head(todo)
       IN  Continue(<<IF g.side = 1 THEN EqGoal(g.ty, g.other, g.seen)
                      ELSE EqGoal(g.other, g.ty, g.seen)>>
                    \o Tail(todo))

\* no call is left: typeEq returns true
ReturnTrue ==
    /\ pc = "running"
    /\ todo = <<>>
    /\ Finish(Ret(TRUE))

NextRec ==
    \/ CallTypeEqRec
    \/ StepTypeEqSub
    \/ StepProp
    \/ StepUnfold
    \/ StepSimplified
    \/ Diverge
    \/ ReturnTrue
    \/ Return

SpecRec == InitRec /\ [][NextRec]_vars

(***************************************************************************)
(* All programs                                                            *)
(***************************************************************************)
Init == InitSub \/ InitPoly \/ InitRecFunc \/ InitRec

Next ==
    \/ CallSubtype
    \/ CallTypecheckSub
    \/ CallTypeEqPoly
    \/ CallSubst
    \/ CallTypecheckPoly
    \/ CallTypeEqRecFunc
    \/ CallTypecheckRecFunc
    \/ CallTypeEqRec
    \/ StepTypeEqSub
    \/ StepProp
    \/ StepUnfold
    \/ StepSimplified
    \/ Diverge
    \/ ReturnTrue
    \/ Return

Spec == Init /\ [][Next]_vars

Returned(op) == pc = "returned" /\ call.op = op

(***************************************************************************)
(* Properties of subtype                                                   *)
(***************************************************************************)
Range(s) == {s[i] : i \in 1..Len(s)}

\* C1, as stated: subtype(G1, G2) returns true and subtype(G2, G1) returns
\* false, for G1 = (x: {a: number, b: boolean}) => number and
\* G2 = (x: {a: number}) => number.
C1_AsStated ==
    Returned("subtype") =>
        /\ (call.ty1 = G1 /\ call.ty2 = G2) => result = Ret(TRUE)
        /\ (call.ty1 = G2 /\ call.ty2 = G1) => result = Ret(FALSE)

\* C1, amended: parameters are contravariant, so the function that accepts the
\* smaller object is the subtype: subtype(G2, G1) returns true and
\* subtype(G1, G2) returns false.
C1_Variance ==
    Returned("subtype") =>
        /\ (call.ty1 = G2 /\ call.ty2 = G1) => result = Ret(TRUE)
        /\ (call.ty1 = G1 /\ call.ty2 = G2) => result = Ret(FALSE)

C1_Witness ==
    Returned("subtype") /\ call.ty1 = G2 /\ call.ty2 = G1 /\ result = Ret(TRUE)

\* the type with every parameter of the outermost function type called n
RenameParams(ty, n) ==
    Func([i \in 1..Len(ty.params) |-> Param(n, ty.params[i].type)], ty.retType)

\* C2: for two function types, subtype(ty1, ty2) is true exactly when the
\* parameter counts agree, every parameter type of ty2 is a subtype of the
\* parameter type of ty1 at the same index, and the return type of ty1 is a
\* subtype of that of ty2; the parameter names have no influence.
C2_FuncSubtype ==
    (Returned("subtype") /\ call.ty1.tag = "Func" /\ call.ty2.tag = "Func") =>
        /\ result.val =
              (/\ Len(call.ty1.params) = Len(call.ty2.params)
               /\ \A i \in 1..Len(call.ty1.params) :
                     Subtype(call.ty2.params[i].type, call.ty1.params[i].type)
               /\ Subtype(call.ty1.retType, call.ty2.retType))
        /\ \A n \in SubParamNames \cup {"f"} :
              /\ result.val = Subtype(RenameParams(call.ty1, n), call.ty2)
              /\ result.val = Subtype(call.ty1, RenameParams(call.ty2, n))

C2_Witness ==
    /\ Returned("subtype")
    /\ call.ty1.tag = "Func" /\ call.ty2.tag = "Func"
    /\ Len(call.ty1.params) = 1 /\ Len(call.ty2.params) = 1
    /\ call.ty1.params[1].name # call.ty2.params[1].name
    /\ call.ty1.params[1].type # call.ty2.params[1].type
    /\ result = Ret(TRUE)

\* C3: for two object types with unique field names, subtype(ty1, ty2) is true
\* exactly when every field of ty2 has a field of the same name in ty1 whose
\* type is a subtype of it, in any field order and with any extra fields in
\* ty1; {foo: number, bar: boolean} is a subtype of {foo: number} and not the
\* other way round.
C3_ObjectSubtype ==
    (Returned("subtype") /\ call.ty1.tag = "Object" /\ call.ty2.tag = "Object") =>
        /\ result.val =
              (\A p2 \in Range(call.ty2.props) :
                  \E p1 \in Range(call.ty1.props) :
                      p1.name = p2.name /\ Subtype(p1.type, p2.type))
        /\ (call.ty1 = ObjFooBar /\ call.ty2 = ObjFoo) => result.val
        /\ (call.ty1 = ObjFoo /\ call.ty2 = ObjFooBar) => ~result.val

C3_Witness ==
    /\ Returned("subtype")
    /\ call.ty1 = ObjFooBar /\ call.ty2 = ObjFoo
    /\ result = Ret(TRUE)

\* C4: subtype is a preorder: subtype(T, T) is true for every T, and whenever
\* subtype(A, B) and subtype(B, C) are true, subtype(A, C) is true.
C4_Preorder ==
    Returned("subtype") =>
        /\ call.ty1 = call.ty2 => result.val
        /\ result.val =>
              \A C \in SubTypes : Subtype(call.ty2, C) => Subtype(call.ty1, C)

C4_Witness ==
    /\ Returned("subtype")
    /\ call.ty1 = Object(<<PropertyType("a", ObjAB)>>)
    /\ call.ty2 = Object(<<PropertyType("a", ObjA)>>)
    /\ result = Ret(TRUE)
    /\ Subtype(call.ty2, Object(<<PropertyType("a", Object(<<>>))>>))

(***************************************************************************)
(* Properties of typeEq and subst of the polymorphic variant               *)
(***************************************************************************)
\* the position of the innermost binder of name n in the list of enclosing
\* binders env (outermost first), 0 when n is free
BinderOf(env, n) ==
    LET hits == {i \in 1..Len(env) : env[i] = n}
    IN  IF hits = {} THEN 0 ELSE CHOOSE i \in hits : \A j \in hits : j <= i

\* every type variable of ty is bound by a binder of env
RECURSIVE WellScoped(_, _)
WellScoped(ty, env) ==
    CASE ty.tag \in {"Boolean", "Number"} -> TRUE
      [] ty.tag = "Func" ->
            /\ \A i \in 1..Len(ty.params) : WellScoped(ty.params[i].type, env)
            /\ WellScoped(ty.retType, env)
      [] ty.tag = "TypeAbs" -> WellScoped(ty.type, env \o ty.typeParams)
      [] ty.tag = "TypeVar" -> BinderOf(env, ty.name) # 0

\* alpha-equivalence: the two types have the same shape and corresponding
\* variables refer to corresponding binders (or are the same free name)
RECURSIVE AlphaEq(_, _, _, _)
AlphaEq(ty1, ty2, env1, env2) ==
    CASE ty2.tag \in {"Boolean", "Number"} -> ty1.tag = ty2.tag
      [] ty2.tag = "Func" ->
            /\ ty1.tag = "Func"
            /\ Len(ty1.params) = Len(ty2.params)
            /\ \A i \in 1..Len(ty1.params) :
                  AlphaEq(ty1.params[i].type, ty2.params[i].type, env1, env2)
            /\ AlphaEq(ty1.retType, ty2.retType, env1, env2)
      [] ty2.tag = "TypeAbs" ->
            /\ ty1.tag = "TypeAbs"
            /\ Len(ty1.typeParams) = Len(ty2.typeParams)
            /\ AlphaEq(ty1.type, ty2.type, env1 \o ty1.typeParams, env2 \o ty2.typeParams)
      [] ty2.tag = "TypeVar" ->
            /\ ty1.tag = "TypeVar"
            /\ BinderOf(env1, ty1.name) = BinderOf(env2, ty2.name)
            /\ BinderOf(env1, ty1.name) = 0 => ty1.name = ty2.name

\* C6: for types whose free type variables are all in tyVars, typeEq returns
\* true exactly when the two types are alpha-equivalent, also when nested
\* binders reuse a name or shadow a name of tyVars.
C6_AlphaEquivalence ==
    (/\ Returned("typeEq")
     /\ WellScoped(call.ty1, call.tyVars)
     /\ WellScoped(call.ty2, call.tyVars)) =>
        result = Ret(AlphaEq(call.ty1, call.ty2, call.tyVars, call.tyVars))

\* the type with its bound variables replaced by the distance to their binder;
\* free variables keep their names
RECURSIVE Nameless(_, _)
Nameless(ty, env) ==
    CASE ty.tag \in {"Boolean", "Number"} -> ty
      [] ty.tag = "Func" ->
            Func([i \in 1..Len(ty.params) |->
                     Param(ty.params[i].name, Nameless(ty.params[i].type, env))],
                 Nameless(ty.retType, env))
      [] ty.tag = "TypeAbs" ->
            [tag |-> "Abs", arity |-> Len(ty.typeParams),
             type |-> Nameless(ty.type, env \o ty.typeParams)]
      [] ty.tag = "TypeVar" ->
            IF BinderOf(env, ty.name) = 0 THEN ty
            ELSE [tag |-> "Bound", up |-> Len(env) - BinderOf(env, ty.name)]

\* substitution on nameless types: a replacement cannot be captured
RECURSIVE NamelessSubst(_, _, _)
NamelessSubst(nty, tyVarName, nrep) ==
    CASE nty.tag \in {"Boolean", "Number", "Bound"} -> nty
      [] nty.tag = "Func" ->
            Func([i \in 1..Len(nty.params) |->
                     Param(nty.params[i].name,
                           NamelessSubst(nty.params[i].type, tyVarName, nrep))],
                 NamelessSubst(nty.retType, tyVarName, nrep))
      [] nty.tag = "Abs" ->
            [tag |-> "Abs", arity |-> nty.arity,
             type |-> NamelessSubst(nty.type, tyVarName, nrep)]
      [] nty.tag = "TypeVar" -> IF nty.name = tyVarName THEN nrep ELSE nty

\* C7: subst is capture-avoiding: in subst(ty, v, r) every variable free in r
\* stays free and every bound variable of ty keeps its binder, for every value
\* of the counter and every choice of names.  (Stated for the types ty whose
\* only free variable is v: the result then consists of the bound variables
\* of ty and of copies of r.)
C7_CaptureAvoiding ==
    (Returned("subst") /\ WellScoped(call.ty, <<call.tyVarName>>)) =>
        Nameless(result.val, <<>>) =
            NamelessSubst(Nameless(call.ty, <<>>), call.tyVarName,
                          Nameless(call.repTy, <<>>))

\* C8: with the counter at its initial value,
\* subst(TypeAbs(["U"], TypeVar("T")), "T", TypeVar("U")) returns
\* TypeAbs(["U1"], TypeVar("U")).
C8_RenamesBinder ==
    (/\ Returned("subst")
     /\ call.id = InitialFreshTyVarId
     /\ call.ty = TypeAbs(<<"U">>, TypeVar("T"))
     /\ call.tyVarName = "T"
     /\ call.repTy = TypeVar("U")) =>
        /\ result = Ret(TypeAbs(<<"U1">>, TypeVar("U")))
        /\ result # Ret(TypeAbs(<<"U">>, TypeVar("U")))

C8_Witness ==
    /\ Returned("subst")
    /\ call.id = InitialFreshTyVarId
    /\ call.ty = TypeAbs(<<"U">>, TypeVar("T"))
    /\ call.tyVarName = "T"
    /\ call.repTy = TypeVar("U")
    /\ result = Ret(TypeAbs(<<"U1">>, TypeVar("U")))

(***************************************************************************)
(* Properties of typeEq                                                    *)
(***************************************************************************)
\* the call of typeEq has ended: it returned, threw, or cannot return
Ended(op) == pc \in {"returned", "diverged"} /\ call.op = op

\* the arguments of the call of typeEq are well formed
WellFormedArgs ==
    CASE prog = "poly" ->
            WellScoped(call.ty1, call.tyVars) /\ WellScoped(call.ty2, call.tyVars)
      [] prog = "rec" -> FreeTypeVars(call.ty1) = {} /\ FreeTypeVars(call.ty2) = {}
      [] OTHER -> TRUE

\* C5: typeEq(T, T) returns true for every well-formed type T in every
\* variant: finite types, generic types whose free variables are in tyVars,
\* and closed recursive types, for which the comparison finishes and succeeds.
C5_Reflexive ==
    (Ended("typeEq") /\ call.ty1 = call.ty2 /\ WellFormedArgs) => result = Ret(TRUE)

\* C9: typeEq(ty1, ty2) of the equi-recursive variant terminates for every
\* pair of closed recursive types, also when the body of a Rec is the bound
\* variable or another Rec.
C9_Terminates ==
    (prog = "rec" /\ call.op = "typeEq" /\ WellFormedArgs) => pc # "diverged"

\* body with the free occurrences of TypeVar(name) replaced by repTy
RECURSIVE ReplaceFree(_, _, _)
ReplaceFree(body, name, repTy) ==
    CASE body.tag \in {"Boolean", "Number"} -> body
      [] body.tag = "Func" ->
            Func([i \in 1..Len(body.params) |->
                     Param(body.params[i].name,
                           ReplaceFree(body.params[i].type, name, repTy))],
                 ReplaceFree(body.retType, name, repTy))
      [] body.tag = "Object" ->
            Object([i \in 1..Len(body.props) |->
                       PropertyType(body.props[i].name,
                                    ReplaceFree(body.props[i].type, name, repTy))])
      [] body.tag = "Rec" ->
            IF body.name = name THEN body
            ELSE Rec(body.name, ReplaceFree(body.type, name, repTy))
      [] body.tag = "TypeVar" -> IF body.name = name THEN repTy ELSE body

\* ty2 is the recursive type ty1 unfolded once
IsUnfoldOf(ty2, ty1) == ty1.tag = "Rec" /\ ty2 = ReplaceFree(ty1.type, ty1.name, ty1)

\* C10: for every closed Rec(name, body), typeEq(Rec(name, body), U) and
\* typeEq(U, Rec(name, body)) are true, where U is body with the free
\* occurrences of name replaced by the Rec (occurrences under an inner Rec
\* of the same name are left alone).
C10_UnfoldEqual ==
    (/\ prog = "rec"
     /\ Ended("typeEq")
     /\ WellFormedArgs
     /\ IsUnfoldOf(call.ty2, call.ty1) \/ IsUnfoldOf(call.ty1, call.ty2)) =>
        result = Ret(TRUE)

(***************************************************************************)
(* typecheck                                                               *)
(***************************************************************************)
\* typecheck of program p has returned or thrown
Checked(p) == pc = "returned" /\ prog = p /\ call.op = "typecheck"

\* C12: checking Var(name) fails with "unknown variable: name" for every
\* name the environment does not bind, and otherwise returns exactly the
\* type the environment binds to it; no name resolves to an inherited value.
C12_VarLookup ==
    (Checked("recfunc") /\ call.t.tag = "var") =>
        IF call.t.name \in DOMAIN call.tyEnv
        THEN result.kind = "ret" /\ result.val = call.tyEnv[call.t.name]
        ELSE result.kind = "throw" /\ result.msg = "unknown variable: " \o call.t.name

\* the comparison of an argument's type with the parameter's type, and
\* typecheck, in the variant p
Compatible(p, argTy, paramTy) ==
    IF p = "sub" THEN Subtype(argTy, paramTy) ELSE TypeEqRecFunc(argTy, paramTy)
TypeOf(p, t, tyEnv) ==
    IF p = "sub" THEN TypecheckSub(t, tyEnv) ELSE TypecheckRecFunc(t, tyEnv)

\* C13: when the callee synthesizes a type, Call(callee, args) returns the
\* callee's return type exactly when that type is a Func, the argument count
\* equals the parameter count and every argument's type is equal to (sub.ts:
\* a subtype of) the parameter's type; otherwise it fails with "function
\* expected", else with "wrong number of arguments" whatever the arguments
\* are, else at the lowest index whose argument fails or mismatches, with
\* "parameter type mismatch: [index]" when it mismatches; index 0 for
\* ((x: boolean) => x)(42).
C13_Call ==
    (/\ pc = "returned"
     /\ call.op = "typecheck"
     /\ prog \in {"sub", "recfunc"}
     /\ call.t.tag = "call") =>
        LET f == TypeOf(prog, call.t.func, call.tyEnv)
            args == call.t.args
            arg(i) == TypeOf(prog, args[i], call.tyEnv)
            bad == {i \in 1..Len(args) :
                       \/ arg(i).kind = "throw"
                       \/ ~Compatible(prog, arg(i).val, f.val.params[i].type)}
            first == CHOOSE i \in bad : \A j \in bad : i <= j
        IN  f.kind = "ret" =>
               IF f.val.tag # "Func"
               THEN result.kind = "throw" /\ result.msg = "function expected"
               ELSE IF Len(args) # Len(f.val.params)
               THEN result.kind = "throw" /\ result.msg = "wrong number of arguments"
               ELSE IF bad = {}
               THEN result.kind = "ret" /\ result.val = f.val.retType
               ELSE IF arg(first).kind = "throw"
               THEN result.kind = "throw" /\ result.msg = arg(first).msg
               ELSE /\ result.kind = "throw"
                    /\ result.msg = ParameterTypeMismatch(first - 1,
                                        f.val.params[first].type, arg(first).val)

\* ((x: boolean) => x)(42) was checked and failed at index 0
C13_Witness ==
    /\ Checked("recfunc")
    /\ call.t = TmCall(TmFunc(<<Param("x", Boolean)>>, Undefined, TmVar("x")), <<TmNumber>>)
    /\ result.kind = "throw"
    /\ result.msg = "parameter type mismatch: [0]: expected Boolean, got Number"

\* the names of the variables a term mentions
RECURSIVE VarsOf(_)
VarsOf(t) ==
    CASE t.tag = "var" -> {t.name}
      [] t.tag \in {"true", "false", "number"} -> {}
      [] t.tag = "if" -> VarsOf(t.cond) \cup VarsOf(t.thn) \cup VarsOf(t.els)
      [] t.tag = "add" -> VarsOf(t.left) \cup VarsOf(t.right)
      [] t.tag \in {"func", "typeAbs"} -> VarsOf(t.body)
      [] t.tag = "call" ->
            VarsOf(t.func) \cup UNION {VarsOf(t.args[i]) : i \in 1..Len(t.args)}
      [] t.tag = "seq" -> VarsOf(t.body) \cup VarsOf(t.rest)
      [] t.tag = "const" -> VarsOf(t.init) \cup VarsOf(t.rest)
      [] t.tag = "objectNew" -> UNION {VarsOf(t.props[i].term) : i \in 1..Len(t.props)}
      [] t.tag = "objectGet" -> VarsOf(t.obj)
      [] t.tag = "recFunc" -> VarsOf(t.body) \cup VarsOf(t.rest)
      [] t.tag = "typeApp" -> VarsOf(t.typeAbs)

ParamNames(params) == {params[i].name : i \in 1..Len(params)}
\* the annotated type of the parameter called n (of the last one, if several are)
ParamType(params, n) ==
    params[CHOOSE i \in 1..Len(params) :
              /\ params[i].name = n
              /\ \A j \in (i + 1)..Len(params) : params[j].name # n].type
\* the environment with funcName bound to funcTy
WithFunc(tyEnv, funcName, funcTy) ==
    [n \in DOMAIN tyEnv \cup {funcName} |-> IF n = funcName THEN funcTy ELSE tyEnv[n]]
\* that environment with every parameter bound to its annotated type
WithFuncAndParams(tyEnv, funcName, funcTy, params) ==
    [n \in DOMAIN tyEnv \cup {funcName} \cup ParamNames(params) |->
        IF n \in ParamNames(params) THEN ParamType(params, n)
        ELSE IF n = funcName THEN funcTy ELSE tyEnv[n]]
\* two outcomes of typecheck are the same type or the same diagnostic
SameOutcome(r1, r2) ==
    /\ r1.kind = r2.kind
    /\ r1.kind = "ret" => r1.val = r2.val
    /\ r1.kind = "throw" => r1.msg = r2.msg

C20_ParamsOnlyInBody ==
    (Checked("recfunc") /\ call.t.tag = "recFunc") =>
        LET t == call.t
            funcTy == Func(t.params, t.retType)
            b == TypecheckRecFunc(t.body,
                     WithFuncAndParams(call.tyEnv, t.funcName, funcTy, t.params))
        IN  (b.kind = "ret" /\ TypeEqRecFunc(t.retType, b.val)) =>
               SameOutcome(result,
                           TypecheckRecFunc(t.rest, WithFunc(call.tyEnv, t.funcName, funcTy)))

\* C11: typecheck is a function of its arguments: checking the term that
\* was just checked once more, with the same environment and the same
\* tyVars, yields the identical type or the identical diagnostic.
C11_Pure ==
    Checked("poly") =>
        SameOutcome(result, TypecheckPoly(call.t, call.tyEnv, call.tyVars, freshTyVarId))

\* ty is a type variable that tyVars does not name
UnboundTypeVar(ty, tyVars) == ty.tag = "TypeVar" /\ ~Includes(tyVars, ty.name)

\* C15: in poly.ts, typeEq(ty1, ty2, tyVars) raises "unknown type variable"
\* whenever ty1 or ty2 is a type variable that has no entry in the map made
\* from tyVars, whatever the other side is; it returns neither true nor
\* false for such a pair.
C15_UnboundThrows ==
    (/\ prog = "poly"
     /\ Returned("typeEq")
     /\ UnboundTypeVar(call.ty1, call.tyVars) \/ UnboundTypeVar(call.ty2, call.tyVars)) =>
        result = Throw("unknown type variable")

\* C16: when every type of the environment has its type variables bound by
\* a TypeAbs of that type or named in tyVars, so has every type typecheck
\* returns: a term whose parameter annotation or type argument mentions a
\* type variable that is not in scope is not accepted.
C16_ResultWellScoped ==
    (/\ Checked("poly")
     /\ result.kind = "ret"
     /\ \A n \in DOMAIN call.tyEnv : WellScoped(call.tyEnv[n], call.tyVars)) =>
        WellScoped(result.val, call.tyVars)

\* every type-variable name that occurs in ty, bound, free or in a binder
RECURSIVE TypeVarNames(_)
TypeVarNames(ty) ==
    CASE ty.tag \in {"Boolean", "Number"} -> {}
      [] ty.tag = "Func" ->
            UNION {TypeVarNames(ty.params[i].type) : i \in 1..Len(ty.params)}
               \cup TypeVarNames(ty.retType)
      [] ty.tag = "TypeAbs" -> Range(ty.typeParams) \cup TypeVarNames(ty.type)
      [] ty.tag = "TypeVar" -> {ty.name}

\* C17: when subst(ty, v, r) renames the parameters of the type abstraction
\* ty, the names it produces are pairwise distinct and none of them is a
\* type-variable name of ty (its parameter list included) or of r; the
\* counter freshTyVarId has grown, by at least one for each of them.
C17_FreshNames ==
    (/\ prog = "poly"
     /\ Returned("subst")
     /\ call.ty.tag = "TypeAbs"
     /\ ~Includes(call.ty.typeParams, call.tyVarName)) =>
        LET fresh == result.val.typeParams
        IN  /\ Distinct(fresh)
            /\ Range(fresh) \cap (TypeVarNames(call.ty) \cup TypeVarNames(call.repTy)) = {}
            /\ freshTyVarId >= call.id + Len(fresh)

\* C18: typecheck leaves the environment object (poly.ts: and the tyVars
\* array) of its caller as it was, whether it returns or throws; so in
\* Seq(body, rest), rest is checked under the caller's bindings, whatever
\* body bound inside itself, and in Let/const the init's own bindings do not
\* reach rest.
C18_CallerEnvUnchanged ==
    (pc = "returned" /\ call.op = "typecheck") =>
        /\ result.env = call.tyEnv
        /\ prog = "poly" => result.tyVars = call.tyVars
        /\ (prog = "recfunc" /\ call.t.tag = "seq") =>
              LET b == TypecheckRecFunc(call.t.body, call.tyEnv)
              IN  b.kind = "ret" =>
                     SameOutcome(result, TypecheckRecFunc(call.t.rest, call.tyEnv))
        /\ (prog = "recfunc" /\ call.t.tag = "const") =>
              LET i == TypecheckRecFunc(call.t.init, call.tyEnv)
              IN  i.kind = "ret" =>
                     SameOutcome(result,
                         TypecheckRecFunc(call.t.rest,
                             [n \in DOMAIN call.tyEnv \cup {call.t.name} |->
                                 IF n = call.t.name THEN i.val ELSE call.tyEnv[n]]))
        /\ (prog = "poly" /\ call.t.tag = "seq") =>
              LET b == TypecheckPoly(call.t.body, call.tyEnv, call.tyVars, call.id)
              IN  b.kind = "ret" =>
                     SameOutcome(result,
                         TypecheckPoly(call.t.rest, call.tyEnv, call.tyVars, b.id))

\* ((x: number) => x); x was checked where nothing binds x: the parameter
\* of the first part is unknown in the second
C18_Witness ==
    /\ Checked("recfunc")
    /\ call.t = TmSeq(TmFunc(<<Param("x", Number)>>, Undefined, TmVar("x")), TmVar("x"))
    /\ call.tyEnv = EmptyEnv
    /\ result.kind = "throw"
    /\ result.msg = "unknown variable: x"
    /\ result.env = EmptyEnv

\* C19: typeEq is symmetric: for well-formed types A and B (and the same
\* tyVars in poly.ts), typeEq(A, B) and typeEq(B, A) have the same outcome,
\* also for TypeAbs pairs where one side reuses a parameter name in a
\* nested binder.
C19_Symmetric ==
    (/\ Returned("typeEq")
     /\ prog \in {"poly", "recfunc"}
     /\ WellFormedArgs) =>
        IF prog = "poly"
        THEN LET r == TypeEqPoly(call.ty2, call.ty1, call.tyVars)
             IN  result = IF r = "throw" THEN Throw("unknown type variable")
                          ELSE Ret(r = "true")
        ELSE result = Ret(TypeEqRecFunc(call.ty2, call.ty1))

\* ty holds no type abstraction
RECURSIVE BinderFree(_)
BinderFree(ty) ==
    CASE ty.tag \in {"Boolean", "Number", "TypeVar"} -> TRUE
      [] ty.tag = "Func" ->
            /\ \A i \in 1..Len(ty.params) : BinderFree(ty.params[i].type)
            /\ BinderFree(ty.retType)
      [] ty.tag = "TypeAbs" -> FALSE

\* body with every occurrence of typeParams[i] replaced by typeArgs[i], all
\* at once: what is inserted is not looked at again
RECURSIVE Instantiate(_, _, _)
Instantiate(body, typeParams, typeArgs) ==
    CASE body.tag \in {"Boolean", "Number"} -> body
      [] body.tag = "Func" ->
            Func([i \in 1..Len(body.params) |->
                     Param(body.params[i].name,
                           Instantiate(body.params[i].type, typeParams, typeArgs))],
                 Instantiate(body.retType, typeParams, typeArgs))
      [] body.tag = "TypeVar" ->
            IF Includes(typeParams, body.name)
            THEN typeArgs[CHOOSE i \in 1..Len(typeParams) : typeParams[i] = body.name]
            ELSE body

\* C21: when t synthesizes TypeAbs(typeParams, body) and typeArgs has as
\* many entries as typeParams, TypeApp(t, typeArgs) returns body with every
\* free occurrence of typeParams[i] replaced by typeArgs[i], all at once: a
\* type argument that mentions the name of a later type parameter is
\* inserted as it is.  (Stated for type arguments whose variables tyVars
\* names and for the bodies that hold no type abstraction of their own,
\* where every occurrence is free and nothing is renamed.)
C21_Simultaneous ==
    (Checked("poly") /\ call.t.tag = "typeApp") =>
        LET b == TypecheckPoly(call.t.typeAbs, call.tyEnv, call.tyVars, call.id)
        IN  (/\ b.kind = "ret"
             /\ b.val.tag = "TypeAbs"
             /\ Len(b.val.typeParams) = Len(call.t.typeArgs)
             /\ Distinct(b.val.typeParams)
             /\ BinderFree(b.val.type)
             /\ \A i \in 1..Len(call.t.typeArgs) :
                   WellScoped(call.t.typeArgs[i], call.tyVars)) =>
                /\ result.kind = "ret"
                /\ result.val = Instantiate(b.val.type, b.val.typeParams, call.t.typeArgs)

====
